---- MODULE Spec2Model ----
(***************************************************************************)
(* Model of the funfuzz outcome classifier (jsfunfuzz/jsunhappy.py) and of *)
(* the build probes of js/inspectShell.py.                                 *)
(*                                                                         *)
(* level() merges the log markers, the run status reported by              *)
(* ntr.timed_run and the answers of the three detectors into one integer   *)
(* level; interesting() compares that level with the caller's threshold.   *)
(* archOfBinary() and shellSupports() map the output of an external        *)
(* program to a result or to a raised exception.                           *)
(*                                                                         *)
(* The external collaborators (timed_run, the detectors, `file`, the       *)
(* probed shell) are the environment: each call draws their answers from   *)
(* bounded sets.                                                           *)
(***************************************************************************)
EXTENDS Integers, Sequences, FiniteSets, TLC

VARIABLES
    called,                  \* last entry point of jsunhappy.py that ran
    logfile,                 \* the lines of <logPrefix>-out, in file order
    sta,                     \* runinfo.sta
    assertAmiss,             \* answer of detect_assertions.amiss
    crashAmiss,              \* answer of detect_interesting_crashes.amiss
    mallocAmiss,             \* answer of detect_malloc_errors.amiss
    base,                    \* (lev, issues) when the log scan is over
    lev,                     \* value returned by level()
    issues,                  \* the issue list when level() returns
    minimumInterestingLevel, \* int(args[0]) of interesting()
    isInteresting,           \* value returned by interesting()
    isWin,                   \* subprocesses.isWin
    unsplitFiletype,         \* output of `file <binary>`, as tokens
    archResult,              \* outcome of archOfBinary()
    retCode,                 \* exit code of the probe run by testBinary()
    supportsResult           \* outcome of shellSupports()

vars == <<called, logfile, sta, assertAmiss, crashAmiss, mallocAmiss, base,
          lev, issues, minimumInterestingLevel, isInteresting, isWin,
          unsplitFiletype, archResult, retCode, supportsResult>>

levelVars == <<called, logfile, sta, assertAmiss, crashAmiss, mallocAmiss,
               base, lev, issues, minimumInterestingLevel, isInteresting>>

(***************************************************************************)
(* Bounds of the model.                                                    *)
(***************************************************************************)
MaxLogLines == 3

MaxThreshold == 7

RetCodeSpan == 5

MaxFileTokens == 3

(***************************************************************************)
(* jsunhappy.py: levels of unhappiness, range(7).                          *)
(***************************************************************************)
JS_FINE == 0

JS_TIMED_OUT == 1

JS_ABNORMAL_EXIT == 2

JS_DID_NOT_FINISH == 3

JS_DECIDED_TO_EXIT == 4

JS_MALLOC_ERROR == 5

JS_NEW_ASSERT_OR_CRASH == 6

Levels == JS_FINE..JS_NEW_ASSERT_OR_CRASH

\* The four statuses of ntr.timed_run that level() distinguishes.
NORMAL == "NORMAL"

ABNORMAL == "ABNORMAL"

CRASHED == "CRASHED"

TIMED_OUT == "TIMED_OUT"

Status == {NORMAL, ABNORMAL, CRASHED, TIMED_OUT}

\* The two magic lines, as the file iterator yields them (newline included).
LookingGood == "It's looking good!\n"

StoppingDueToError == "jsfunfuzz stopping due to above error!\n"

\* Lines that end in a newline, and lines that do not: iterating a file
\* yields a line without its newline only as the last line.
TerminatedLines == {LookingGood, StoppingDueToError,
                    "Assertion failure: x, at y.cpp:1\n",
                    " It's looking good!\n"}

UnterminatedLines == {"It's looking good!",
                      "jsfunfuzz stopping due to above error!"}

Logs == {l \in UNION {[1..n -> TerminatedLines \cup UnterminatedLines] : n \in 0..MaxLogLines} :
            \A i \in 1..Len(l) : i < Len(l) => l[i] \in TerminatedLines}

max(a, b) == IF a >= b THEN a ELSE b

Range(s) == {s[i] : i \in 1..Len(s)}

(***************************************************************************)
(* level(): the log scan.  st is the pair (lev, issues) of the locals.     *)
(***************************************************************************)
InitialLevel == [lev |-> JS_DID_NOT_FINISH, issues |-> <<"jsfunfuzz didn't finish">>]

ScanLineStickyFine(st, line) ==
    IF line = LookingGood
    THEN [lev |-> JS_FINE, issues |-> <<>>]
    ELSE IF line = StoppingDueToError /\ st.lev # JS_FINE
         THEN [lev |-> JS_DECIDED_TO_EXIT, issues |-> <<"jsfunfuzz decided to exit">>]
         ELSE st

ScanLineKeepIssues(st, line) ==
    IF line = LookingGood
    THEN [lev |-> JS_FINE, issues |-> st.issues]
    ELSE IF line = StoppingDueToError
         THEN [lev |-> JS_DECIDED_TO_EXIT, issues |-> <<"jsfunfuzz decided to exit">>]
         ELSE st

ScanLine(st, line) ==
    IF line = LookingGood
    THEN [lev |-> JS_FINE, issues |-> <<>>]
    ELSE IF line = StoppingDueToError
         THEN [lev |-> JS_DECIDED_TO_EXIT, issues |-> <<"jsfunfuzz decided to exit">>]
         ELSE st

RECURSIVE ScanFrom(_, _, _)
ScanFrom(st, lines, i) ==
    IF i > Len(lines) THEN st ELSE ScanFrom(ScanLine(st, lines[i]), lines, i + 1)

ScanLog(lines) == ScanFrom(InitialLevel, lines, 1)

(***************************************************************************)
(* level(): the checks after the scan, one operator per if-statement.      *)
(***************************************************************************)
CheckAssertions(st, amiss) ==
    IF amiss
    THEN [lev |-> max(st.lev, JS_NEW_ASSERT_OR_CRASH),
          issues |-> Append(st.issues, "unknown assertion")]
    ELSE st

CheckCrashUngated(st, status, amiss) ==
    IF amiss
    THEN [lev |-> max(st.lev, JS_NEW_ASSERT_OR_CRASH),
          issues |-> Append(st.issues, "unknown crash")]
    ELSE st

CheckCrash(st, status, amiss) ==
    IF status = CRASHED /\ amiss
    THEN [lev |-> max(st.lev, JS_NEW_ASSERT_OR_CRASH),
          issues |-> Append(st.issues, "unknown crash")]
    ELSE st

CheckMallocAssign(st, amiss) ==
    IF amiss
    THEN [lev |-> JS_MALLOC_ERROR, issues |-> Append(st.issues, "malloc error")]
    ELSE st

CheckMalloc(st, amiss) ==
    IF amiss
    THEN [lev |-> max(st.lev, JS_MALLOC_ERROR),
          issues |-> Append(st.issues, "malloc error")]
    ELSE st

CheckAbnormalAssign(st, status) ==
    IF status = ABNORMAL
    THEN [lev |-> JS_ABNORMAL_EXIT, issues |-> Append(st.issues, "abnormal exit")]
    ELSE st

CheckAbnormal(st, status) ==
    IF status = ABNORMAL
    THEN [lev |-> max(st.lev, JS_ABNORMAL_EXIT),
          issues |-> Append(st.issues, "abnormal exit")]
    ELSE st

CheckTimedOutNoFloor(st, status) ==
    IF status = TIMED_OUT
    THEN [lev |-> st.lev, issues |-> Append(st.issues, "timed out")]
    ELSE st

CheckTimedOutAssign(st, status) ==
    IF status = TIMED_OUT
    THEN [lev |-> JS_TIMED_OUT, issues |-> Append(st.issues, "timed out")]
    ELSE st

CheckTimedOut(st, status) ==
    IF status = TIMED_OUT
    THEN [lev |-> max(st.lev, JS_TIMED_OUT),
          issues |-> Append(st.issues, "timed out")]
    ELSE st

\* The locals (lev, issues) of level() at its return statement.
level(lines, status, a, c, m) ==
    CheckTimedOut(
      CheckAbnormal(
        CheckMalloc(
          CheckCrash(
            CheckAssertions(ScanLog(lines), a),
            status, c),
          m),
        status),
      status)

InterestingStrict(actualLevel, minimum) == actualLevel > minimum

\* interesting(): the comparison of its return statement.
interesting(actualLevel, minimum) == actualLevel >= minimum

Thresholds == -1..MaxThreshold

(***************************************************************************)
(* inspectShell.py                                                         *)
(***************************************************************************)
Colon == ":"

FileTokens == {Colon, "universal binary", "32-bit", "64-bit", "i386",
               "Intel 80386", "PE executable for MS Windows (console)", "ELF"}

\* What `file <binary>` can print: "<name>: <description>".
FileOutputs == {s \in UNION {[1..n -> FileTokens] : n \in 1..MaxFileTokens} :
                   \E i \in 1..Len(s) : s[i] = Colon}

\* needle in hay, for strings cut into tokens.
Contains(hay, needle) ==
    \E k \in 0..(Len(hay) - Len(needle)) :
        \A j \in 1..Len(needle) : hay[k + j] = needle[j]

\* unsplitFiletype.split(':', 1)[1]
SplitAfterColon(s) ==
    LET first == CHOOSE i \in 1..Len(s) :
                    s[i] = Colon /\ \A j \in 1..(i - 1) : s[j] # Colon
    IN  SubSeq(s, first + 1, Len(s))

archOfBinary(win, unsplit) ==
    LET filetype == SplitAfterColon(unsplit) IN
    IF win
    THEN IF ~Contains(filetype, <<"PE executable for MS Windows (console)">>)
         THEN "AssertionError"
         ELSE IF Contains(filetype, <<"Intel 80386", "32-bit">>) THEN "32" ELSE "64"
    ELSE IF Contains(filetype, <<"universal binary">>)
         THEN "Exception"
         ELSE IF Contains(filetype, <<"32-bit">>) \/ Contains(filetype, <<"i386">>)
              THEN IF Contains(filetype, <<"64-bit">>) THEN "AssertionError" ELSE "32"
              ELSE IF Contains(filetype, <<"64-bit">>)
                   THEN IF Contains(filetype, <<"32-bit">>) THEN "AssertionError" ELSE "64"
                   ELSE "None"

shellSupportsUpTo3(code) ==
    IF code = 0 THEN "True"
    ELSE IF code <= 3 THEN "False"
    ELSE "Exception"

shellSupports(code) ==
    IF code = 0 THEN "True"
    ELSE IF 1 <= code /\ code <= 3 THEN "False"
    ELSE "Exception"

RetCodes == (0 - RetCodeSpan)..RetCodeSpan

(***************************************************************************)
(* State machine.  The initial state fixes what the environment will       *)
(* answer (the log the shell wrote, the status, the detectors' answers,    *)
(* the output of `file`, the probe's exit code); each action is one call   *)
(* of a function of the program on those answers.                          *)
(***************************************************************************)
NoLevelCall ==
    /\ called = "none"
    /\ base = InitialLevel
    /\ lev = JS_DID_NOT_FINISH
    /\ issues = InitialLevel.issues
    /\ minimumInterestingLevel = 0
    /\ isInteresting = FALSE

NoInspectCall ==
    /\ archResult = "not called"
    /\ supportsResult = "not called"

Init ==
    /\ NoLevelCall
    /\ logfile \in Logs
    /\ sta \in Status
    /\ assertAmiss \in BOOLEAN
    /\ crashAmiss \in BOOLEAN
    /\ mallocAmiss \in BOOLEAN
    /\ NoInspectCall
    /\ isWin = FALSE
    /\ unsplitFiletype = <<Colon>>
    /\ retCode = 0

InitInspect ==
    /\ NoLevelCall
    /\ logfile = <<>>
    /\ sta = NORMAL
    /\ assertAmiss = FALSE
    /\ crashAmiss = FALSE
    /\ mallocAmiss = FALSE
    /\ NoInspectCall
    /\ isWin \in BOOLEAN
    /\ unsplitFiletype \in FileOutputs
    /\ retCode \in RetCodes

\* The body of level() for the run the environment describes.
RunLevel ==
    LET r == level(logfile, sta, assertAmiss, crashAmiss, mallocAmiss) IN
    /\ base' = ScanLog(logfile)
    /\ lev' = r.lev
    /\ issues' = r.issues

Level ==
    /\ called = "none"
    /\ RunLevel
    /\ called' = "level"
    /\ UNCHANGED <<logfile, sta, assertAmiss, crashAmiss, mallocAmiss,
                   minimumInterestingLevel, isInteresting>>
    /\ UNCHANGED <<isWin, unsplitFiletype, archResult, retCode, supportsResult>>

Interesting ==
    /\ called = "none"
    /\ \E minimum \in Thresholds :
          /\ minimumInterestingLevel' = minimum
          /\ RunLevel
          /\ isInteresting' = interesting(lev', minimum)
    /\ called' = "interesting"
    /\ UNCHANGED <<logfile, sta, assertAmiss, crashAmiss, mallocAmiss>>
    /\ UNCHANGED <<isWin, unsplitFiletype, archResult, retCode, supportsResult>>

ArchOfBinary ==
    /\ archResult = "not called"
    /\ archResult' = archOfBinary(isWin, unsplitFiletype)
    /\ UNCHANGED <<levelVars, isWin, unsplitFiletype, retCode, supportsResult>>

ShellSupports ==
    /\ supportsResult = "not called"
    /\ supportsResult' = shellSupports(retCode)
    /\ UNCHANGED <<levelVars, isWin, unsplitFiletype, archResult, retCode>>

Next == Level \/ Interesting

Spec == Init /\ [][Next]_vars

NextInspect == ArchOfBinary \/ ShellSupports

SpecInspect == InitInspect /\ [][NextInspect]_vars

(***************************************************************************)
(* Properties of level() and interesting().                                *)
(***************************************************************************)
Ran == called # "none"

\* The locals of level() after the three detector checks, before the two
\* status checks.
BeforeStatusChecks ==
    CheckMalloc(CheckCrash(CheckAssertions(base, assertAmiss), sta, crashAmiss),
                mallocAmiss)

\* C1: turning one detector's answer from false to true, all else fixed,
\* never lowers the returned level, and the returned level is never below
\* the level the log markers alone give.
C1_Monotonic ==
    Ran =>
      /\ lev >= base.lev
      /\ ~assertAmiss =>
            level(logfile, sta, TRUE, crashAmiss, mallocAmiss).lev >= lev
      /\ ~crashAmiss =>
            level(logfile, sta, assertAmiss, TRUE, mallocAmiss).lev >= lev
      /\ ~mallocAmiss =>
            level(logfile, sta, assertAmiss, crashAmiss, TRUE).lev >= lev

\* An unknown assertion on a log that ends well, the allocator detector quiet:
\* the level is already the highest when the allocator detector is flipped.
C1_Witness ==
    /\ called = "level"
    /\ base.lev = JS_FINE
    /\ assertAmiss /\ ~mallocAmiss
    /\ lev = JS_NEW_ASSERT_OR_CRASH
    /\ level(logfile, sta, assertAmiss, crashAmiss, TRUE).lev = JS_NEW_ASSERT_OR_CRASH

\* C2: when level() returns, the issue list is empty iff the level is FINE.
C2_EmptyIffFine == Ran => (issues = <<>> <=> lev = JS_FINE)

\* A log whose default issue was cleared by the success marker, the run
\* crashed but the crash is a known one: no issue, level FINE.
C2_Witness ==
    /\ called = "level"
    /\ Len(logfile) > 0
    /\ sta = CRASHED /\ crashAmiss = FALSE
    /\ issues = <<>>
    /\ lev = JS_FINE

ScenarioD ==
    /\ Ran
    /\ logfile = <<>>
    /\ sta = TIMED_OUT
    /\ ~assertAmiss /\ ~crashAmiss /\ ~mallocAmiss

\* C3 as stated: scenario D (empty log, TIMED_OUT, no detector fires) gives
\* level TIMED_OUT and the issues "didn't finish", "timed out".
C3_ScenarioD_TimedOut ==
    ScenarioD =>
      /\ lev = JS_TIMED_OUT
      /\ issues = <<"jsfunfuzz didn't finish", "timed out">>

\* C3 amended: scenario D gives level DID_NOT_FINISH (the higher of
\* DID_NOT_FINISH and TIMED_OUT) and the issues "didn't finish", "timed out".
C3_ScenarioD_DidNotFinish ==
    ScenarioD =>
      /\ lev = JS_DID_NOT_FINISH
      /\ issues = <<"jsfunfuzz didn't finish", "timed out">>

C3_Witness == ScenarioD /\ called = "level" /\ lev = JS_DID_NOT_FINISH

Markers == {LookingGood, StoppingDueToError}

\* The base the last marker line of the log stands for.
LastMarkerBase(lines) ==
    LET at == {i \in 1..Len(lines) : lines[i] \in Markers} IN
    IF at = {}
    THEN [lev |-> JS_DID_NOT_FINISH, issues |-> <<"jsfunfuzz didn't finish">>]
    ELSE LET last == CHOOSE i \in at : \A j \in at : j <= i IN
         IF lines[last] = LookingGood
         THEN [lev |-> JS_FINE, issues |-> <<>>]
         ELSE [lev |-> JS_DECIDED_TO_EXIT, issues |-> <<"jsfunfuzz decided to exit">>]

\* C4: after the scan the base level and issues are those of the last line
\* equal to a marker, whatever precedes it; without such a line they are
\* DID_NOT_FINISH and "didn't finish"; other lines change nothing.
C4_LastMarkerWins ==
    Ran =>
      /\ base = LastMarkerBase(logfile)
      /\ \A i \in 1..Len(logfile) :
            logfile[i] \notin Markers =>
               ScanLog(SubSeq(logfile, 1, i)) = ScanLog(SubSeq(logfile, 1, i - 1))

\* Success marker, then the self-terminated marker, then a line that only
\* looks like the success marker: the base is DECIDED_TO_EXIT.
C4_Witness ==
    /\ called = "level"
    /\ logfile = <<LookingGood, StoppingDueToError, "It's looking good!">>
    /\ base.lev = JS_DECIDED_TO_EXIT
    /\ base.issues = <<"jsfunfuzz decided to exit">>

\* C5: status TIMED_OUT gives at least TIMED_OUT and the issue "timed out",
\* status ABNORMAL at least ABNORMAL_EXIT and "abnormal exit", also when the
\* last marker is the success marker; a higher level reached before the
\* status checks is kept.
C5_StatusFloor ==
    Ran =>
      /\ sta = TIMED_OUT => lev >= JS_TIMED_OUT /\ "timed out" \in Range(issues)
      /\ sta = ABNORMAL => lev >= JS_ABNORMAL_EXIT /\ "abnormal exit" \in Range(issues)
      /\ lev >= BeforeStatusChecks.lev
      /\ lev >= base.lev

\* A log that ends well, no detector fires, the run timed out.
C5_Witness ==
    /\ called = "level"
    /\ base.lev = JS_FINE
    /\ sta = TIMED_OUT
    /\ BeforeStatusChecks.lev = JS_FINE
    /\ lev = JS_TIMED_OUT
    /\ issues = <<"timed out">>

ScenarioA ==
    /\ logfile = <<LookingGood>>
    /\ sta = NORMAL
    /\ ~assertAmiss /\ ~crashAmiss /\ ~mallocAmiss

\* C6: interesting() returns true exactly when the level of the run is at
\* least the minimum level; with minimum MALLOC_ERROR it is false for
\* scenario A and true for every run at MALLOC_ERROR or NEW_ASSERT_OR_CRASH.
C6_Interesting ==
    called = "interesting" =>
      /\ isInteresting <=> lev >= minimumInterestingLevel
      /\ minimumInterestingLevel = JS_MALLOC_ERROR /\ ScenarioA => ~isInteresting
      /\ minimumInterestingLevel = JS_MALLOC_ERROR
           /\ lev \in {JS_MALLOC_ERROR, JS_NEW_ASSERT_OR_CRASH} => isInteresting

\* A run classified exactly at the minimum level MALLOC_ERROR is kept.
C6_Witness ==
    /\ called = "interesting"
    /\ minimumInterestingLevel = JS_MALLOC_ERROR
    /\ lev = JS_MALLOC_ERROR
    /\ isInteresting

\* C9: unless the status is CRASHED the level and the issues do not depend on
\* the crash detector and "unknown crash" is not an issue; with status
\* CRASHED and the crash detector true, "unknown crash" is an issue and the
\* level is NEW_ASSERT_OR_CRASH.
C9_CrashGate ==
    Ran =>
      /\ sta # CRASHED =>
           /\ level(logfile, sta, assertAmiss, ~crashAmiss, mallocAmiss)
                = [lev |-> lev, issues |-> issues]
           /\ "unknown crash" \notin Range(issues)
      /\ sta = CRASHED /\ crashAmiss =>
           /\ "unknown crash" \in Range(issues)
           /\ lev = JS_NEW_ASSERT_OR_CRASH
           /\ level(logfile, sta, assertAmiss, FALSE, mallocAmiss).issues
                = SelectSeq(issues, LAMBDA s : s # "unknown crash")

\* The crash detector would answer true, but the run timed out.
C9_Witness ==
    /\ called = "level"
    /\ sta = TIMED_OUT
    /\ crashAmiss
    /\ lev < JS_NEW_ASSERT_OR_CRASH

\* The levels of the signals that fired in the run.
FiredLevels ==
    (IF assertAmiss THEN {JS_NEW_ASSERT_OR_CRASH} ELSE {})
    \cup (IF sta = CRASHED /\ crashAmiss THEN {JS_NEW_ASSERT_OR_CRASH} ELSE {})
    \cup (IF mallocAmiss THEN {JS_MALLOC_ERROR} ELSE {})
    \cup (IF sta = ABNORMAL THEN {JS_ABNORMAL_EXIT} ELSE {})
    \cup (IF sta = TIMED_OUT THEN {JS_TIMED_OUT} ELSE {})

Highest(S) == CHOOSE x \in S : \A y \in S : y <= x

\* The k-th check of level(), on the answers of the run.
CheckNumber(k, st) ==
    CASE k = 1 -> CheckAssertions(st, assertAmiss)
      [] k = 2 -> CheckCrash(st, sta, crashAmiss)
      [] k = 3 -> CheckMalloc(st, mallocAmiss)
      [] k = 4 -> CheckAbnormal(st, sta)
      [] k = 5 -> CheckTimedOut(st, sta)

RECURSIVE ChecksInOrder(_, _, _)
ChecksInOrder(order, st, i) ==
    IF i > 5 THEN st ELSE ChecksInOrder(order, CheckNumber(order[i], st), i + 1)

\* C10: the returned level is the highest of the base level and the levels
\* of the signals that fired, in whatever order the checks are applied.
C10_LevelIsMax ==
    Ran =>
      /\ lev = Highest({base.lev} \cup FiredLevels)
      /\ \A order \in Permutations(1..5) :
            ChecksInOrder(order, base, 1).lev = lev

\* A self-terminated run that exited abnormally with an allocator error:
\* three different levels compete.
C10_Witness ==
    /\ called = "level"
    /\ base.lev = JS_DECIDED_TO_EXIT
    /\ mallocAmiss /\ ~assertAmiss
    /\ sta = ABNORMAL
    /\ lev = JS_MALLOC_ERROR

(***************************************************************************)
(* Properties of the build probes.                                         *)
(***************************************************************************)
\* C7: exit code 0 gives True, exit codes 1, 2 and 3 give False, every other
\* exit code, negative ones included, raises.
C7_ExitCodeMap ==
    supportsResult # "not called" =>
      /\ retCode = 0 => supportsResult = "True"
      /\ retCode \in {1, 2, 3} => supportsResult = "False"
      /\ retCode \notin {0, 1, 2, 3} => supportsResult = "Exception"

\* A probe killed by a signal (negative exit code) raises.
C7_Witness == retCode < 0 /\ supportsResult = "Exception"

\* C8: archOfBinary() returns '32' or '64' or fails hard; it returns nothing
\* else.
C8_Arch32Or64OrFails ==
    archResult # "not called" =>
      archResult \in {"32", "64", "Exception", "AssertionError"}

====
